---- MODULE Spec2Model ----
(***************************************************************************)
(* Event-sourced notification pipeline of the product catalog:             *)
(*   routes/products.ts      create / update / delete handlers, emitEvent  *)
(*   services/stockService   checkAndEmitLowStockWarning                   *)
(*   db.ts                   events table and the notify_event trigger     *)
(*   sse/events.ts           client registry, heartbeat, stream endpoint,  *)
(*                           LISTEN connection and fan-out handler         *)
(* Time is counted in seconds.                                             *)
(***************************************************************************)
EXTENDS Integers, Sequences, FiniteSets, TLC

\* ---------------------------------------------------------------- bounds
MaxTime == 5
MaxEvents == 3
MaxClients == 2
MaxLiveTime == 75
MaxTimers == 2
MaxProducts == 1
MaxPeerClients == 1
MaxPage == 3
MaxActivityTime == 45
MaxActivityEvents == 1
MaxForeign == 2
MaxNotifications == 3

\* ------------------------------------------------------ program constants
LOW_STOCK_THRESHOLD == 5
DEDUP_WINDOW == 5
HEARTBEAT_INTERVAL == 15
CLIENT_TIMEOUT == 60

Sellers == {"s1", "s2"}
ProductIds == {1, 2}
Quantities == {5, 6}
ReqSlots == {1, 2}
ClientIds == 1..MaxClients
ConnIds == {1, 2, 3}
CallIds == {1, 2}
HandlerCounts == {0, 1, 2}

\* a numeric query parameter after the schema's transform: <<n>>, or <<>> for NaN
LimitInputs == {<<>>} \cup {<<n>> : n \in {-1, 0, 1, 2, 3, 100, 101}}
PageInputs == {<<>>} \cup {<<n>> : n \in -1..MaxPage}

IdleCall == [pc |-> "idle", k |-> 0]
NoConn == [st |-> "new", listening |-> FALSE, handlers |-> 0]

VARIABLES
  now,           \* wall clock: Date.now() in the server, now() in the database
  products,      \* table products: id -> row
  nextProductId, \* products.id serial
  events,        \* table events: the committed rows
  nextEventId,   \* events.id bigserial
  published,     \* ids of the rows for which the trigger performed pg_notify
  reqs,          \* the product handlers in flight, one per slot
  lastResp,      \* what the handler that finished last did
  pgClient,      \* sse/events.ts `pgClient`: the connection the broadcaster holds (0 = null)
  lconn,         \* the pool's connections as the broadcaster uses them
  timers,        \* pending setTimeout(() => registerEventBroadcaster(), 5000)
  calls,         \* registerEventBroadcaster invocations in flight
  inbox,         \* events_channel: notifications received by each connection, not yet handled
  clients,       \* sse/events.ts `clients`
  nextClientId,  \* sse/events.ts `nextClientId`
  cl,            \* the Client objects and their transports
  written,       \* frames written to each client's response
  peer,          \* the module state of a second worker process forked by the cluster bootstrap
  listing,       \* the last GET /products: its query and the response body
  store          \* the browser's Redux state of notificationsSlice

vars == <<now, products, nextProductId, events, nextEventId, published, reqs,
          lastResp, pgClient, lconn, timers, calls, inbox, clients, nextClientId, cl, written, peer,
          listing, store>>

dbVars == <<products, nextProductId, events, nextEventId, published, reqs, lastResp>>
lsnVars == <<pgClient, lconn, timers, calls>>
sseVars == <<clients, nextClientId, cl, written>>

\* ------------------------------------------------------------- helpers
SeqToSet(s) == {s[i] : i \in 1..Len(s)}

RECURSIVE SelectSeqBy(_, _)
\* s.filter(x => x \in keep), order preserved
SelectSeqBy(s, keep) ==
  IF s = <<>> THEN <<>>
  ELSE IF Head(s) \in keep THEN <<Head(s)>> \o SelectSeqBy(Tail(s), keep)
       ELSE SelectSeqBy(Tail(s), keep)

\* ------------------------------------------------------ products / events
NoProduct == [exists |-> FALSE, seller_id |-> "none", quantity |-> 0]

NoRow == [id |-> 0, type |-> "none", seller_id |-> "none", product_id |-> 0,
          payload |-> [kind |-> "none", quantity |-> 0], created_at |-> 0]

\* the row an INSERT INTO events builds: id from the sequence, created_at default now()
EventRow(type, sellerId, productId, payload) ==
  [id |-> nextEventId, type |-> type, seller_id |-> sellerId,
   product_id |-> productId, payload |-> payload, created_at |-> now]

\* the lookup without the 5 second window
SimilarRecent_anyAge(row) ==
  \E r \in events :
     /\ r.type = row.type
     /\ r.product_id = row.product_id
     /\ r.id # row.id

\* the lookup measured against the published rows only
SimilarRecent_publishedOnly(row) ==
  \E r \in events :
     /\ r.type = row.type
     /\ r.product_id = row.product_id
     /\ r.id # row.id
     /\ r.id \in published
     /\ r.created_at > row.created_at - DEDUP_WINDOW

\* notify_event: another row of the same type and product in the last 5 seconds
SimilarRecent(row) ==
  \E r \in events :
     /\ r.type = row.type
     /\ r.product_id = row.product_id
     /\ r.id # row.id
     /\ r.created_at > row.created_at - DEDUP_WINDOW

\* notify_event: "only notify if no similar event was found"
TriggerNotifies(row) == ~SimilarRecent(row)

\* a channel that hands the newest notification over first
Deliver_newestFirst(box, row) ==
  [k \in DOMAIN box |-> IF lconn[k].listening THEN <<row>> \o box[k] ELSE box[k]]

\* a channel on which a LowStockWarning overtakes the notifications waiting
Deliver_warningsFirst(box, row) ==
  [k \in DOMAIN box |->
     IF ~lconn[k].listening THEN box[k]
     ELSE IF row.type = "LowStockWarning" THEN <<row>> \o box[k] ELSE Append(box[k], row)]

\* pg_notify at commit: every connection that is listening receives the row as JSON
Deliver(box, row) ==
  [k \in DOMAIN box |-> IF lconn[k].listening THEN Append(box[k], row) ELSE box[k]]

\* the second worker's LISTEN connection receives the notification as well
PeerDeliver(w, row) ==
  IF w.running /\ w.listening THEN [w EXCEPT !.inbox = Append(@, row)] ELSE w

\* ------------------------------------------------------- product handlers
IdleReq == [pc |-> "idle", op |-> "none", seller |-> "none", pid |-> 0, qty |-> 0,
            row |-> NoRow, notify |-> FALSE, del |-> {},
            mutated |-> FALSE, primary |-> FALSE, low |-> FALSE]

NoResp == [op |-> "none", status |-> 0, pid |-> 0, qty |-> 0,
           mutated |-> FALSE, primary |-> FALSE, low |-> FALSE]

\* res.json / next(error): the handler ends and reports
Respond(r, status) ==
  /\ lastResp' = [op |-> reqs[r].op, status |-> status, pid |-> reqs[r].pid,
                  qty |-> reqs[r].qty, mutated |-> reqs[r].mutated,
                  primary |-> reqs[r].primary, low |-> reqs[r].low]
  /\ reqs' = [reqs EXCEPT ![r] = IdleReq]

PrimaryType(op) ==
  CASE op = "create" -> "ProductCreated"
    [] op = "update" -> "ProductUpdated"
    [] OTHER         -> "ProductDeleted"

PrimaryPayload(op, qty) ==
  IF op = "delete" THEN [kind |-> "deleted", quantity |-> 0]
  ELSE [kind |-> "product", quantity |-> qty]

\* POST /products: INSERT INTO products ... RETURNING *
CreateProduct(r, s, q, ok) ==
  /\ reqs[r].pc = "idle"
  /\ nextProductId <= MaxProducts
  /\ IF ok
     THEN /\ products' = [products EXCEPT ![nextProductId] =
                            [exists |-> TRUE, seller_id |-> s, quantity |-> q]]
          /\ nextProductId' = nextProductId + 1
          /\ reqs' = [reqs EXCEPT ![r] = [IdleReq EXCEPT !.pc = "emit", !.op = "create",
                         !.seller = s, !.pid = nextProductId, !.qty = q, !.mutated = TRUE]]
          /\ UNCHANGED lastResp
     ELSE /\ lastResp' = [NoResp EXCEPT !.op = "create", !.status = 500]
          /\ UNCHANGED <<products, nextProductId, reqs>>
  /\ UNCHANGED <<now, peer, listing, store, events, nextEventId, published, lsnVars, inbox, sseVars>>

\* an UPDATE whose WHERE clause has no seller_id test
UpdateProduct_unscoped(r, s, pid, q, ok) ==
  /\ reqs[r].pc = "idle"
  /\ IF ~ok
     THEN /\ lastResp' = [NoResp EXCEPT !.op = "update", !.status = 500, !.pid = pid]
          /\ UNCHANGED <<products, reqs>>
     ELSE IF products[pid].exists
     THEN /\ products' = [products EXCEPT ![pid].quantity = q]
          /\ reqs' = [reqs EXCEPT ![r] = [IdleReq EXCEPT !.pc = "emit", !.op = "update",
                         !.seller = s, !.pid = pid, !.qty = q, !.mutated = TRUE]]
          /\ UNCHANGED lastResp
     ELSE /\ lastResp' = [NoResp EXCEPT !.op = "update", !.status = 404, !.pid = pid]
          /\ UNCHANGED <<products, reqs>>
  /\ UNCHANGED <<now, peer, listing, store, nextProductId, events, nextEventId, published, lsnVars, inbox, sseVars>>

\* PUT /products/:id: UPDATE products ... WHERE id = $1 AND seller_id = $2 RETURNING *
UpdateProduct(r, s, pid, q, ok) ==
  /\ reqs[r].pc = "idle"
  /\ IF ~ok
     THEN /\ lastResp' = [NoResp EXCEPT !.op = "update", !.status = 500, !.pid = pid]
          /\ UNCHANGED <<products, reqs>>
     ELSE IF products[pid].exists /\ products[pid].seller_id = s
     THEN /\ products' = [products EXCEPT ![pid].quantity = q]
          /\ reqs' = [reqs EXCEPT ![r] = [IdleReq EXCEPT !.pc = "emit", !.op = "update",
                         !.seller = s, !.pid = pid, !.qty = q, !.mutated = TRUE]]
          /\ UNCHANGED lastResp
     ELSE /\ lastResp' = [NoResp EXCEPT !.op = "update", !.status = 404, !.pid = pid]
          /\ UNCHANGED <<products, reqs>>
  /\ UNCHANGED <<now, peer, listing, store, nextProductId, events, nextEventId, published, lsnVars, inbox, sseVars>>

\* a delete whose 404 path does not roll back the DELETE FROM events
DeleteProduct_noRollback(r, s, pid, ok) ==
  /\ reqs[r].pc = "idle"
  /\ IF ~ok
     THEN /\ lastResp' = [NoResp EXCEPT !.op = "delete", !.status = 500, !.pid = pid]
          /\ UNCHANGED <<reqs, events>>
     ELSE IF products[pid].exists /\ products[pid].seller_id = s
     THEN /\ reqs' = [reqs EXCEPT ![r] = [IdleReq EXCEPT !.pc = "delCommit", !.op = "delete",
                         !.seller = s, !.pid = pid,
                         !.del = {e.id : e \in {x \in events : x.product_id = pid}}]]
          /\ UNCHANGED <<lastResp, events>>
     ELSE /\ lastResp' = [NoResp EXCEPT !.op = "delete", !.status = 404, !.pid = pid]
          /\ events' = {e \in events : e.product_id # pid}
          /\ UNCHANGED reqs
  /\ UNCHANGED <<now, peer, listing, store, products, nextProductId, nextEventId, published, lsnVars, inbox, sseVars>>

\* DELETE /products/:id: BEGIN; DELETE FROM events ...; DELETE FROM products ... RETURNING *
DeleteProduct(r, s, pid, ok) ==
  /\ reqs[r].pc = "idle"
  /\ IF ~ok
     THEN /\ lastResp' = [NoResp EXCEPT !.op = "delete", !.status = 500, !.pid = pid]
          /\ UNCHANGED reqs
     ELSE IF products[pid].exists /\ products[pid].seller_id = s
     THEN /\ reqs' = [reqs EXCEPT ![r] = [IdleReq EXCEPT !.pc = "delCommit", !.op = "delete",
                         !.seller = s, !.pid = pid,
                         !.del = {e.id : e \in {x \in events : x.product_id = pid}}]]
          /\ UNCHANGED lastResp
     ELSE \* no row: ROLLBACK, 404
          /\ lastResp' = [NoResp EXCEPT !.op = "delete", !.status = 404, !.pid = pid]
          /\ UNCHANGED reqs
  /\ UNCHANGED <<now, peer, listing, store, products, nextProductId, events, nextEventId, published, lsnVars, inbox, sseVars>>

\* DELETE /products/:id: COMMIT
DeleteCommit(r) ==
  /\ reqs[r].pc = "delCommit"
  /\ events' = {e \in events : e.id \notin reqs[r].del}
  /\ products' = [products EXCEPT ![reqs[r].pid] = NoProduct]
  /\ reqs' = [reqs EXCEPT ![r].pc = "emit", ![r].mutated = TRUE, ![r].del = {}]
  /\ UNCHANGED <<now, peer, listing, store, nextProductId, nextEventId, published, lastResp, lsnVars, inbox, sseVars>>

\* after the primary event: create and update go on to the low-stock check, delete responds
AfterEmit(r, stored) ==
  IF reqs[r].op = "delete"
  THEN /\ lastResp' = [op |-> "delete", status |-> 200, pid |-> reqs[r].pid, qty |-> 0,
                       mutated |-> reqs[r].mutated, primary |-> stored, low |-> FALSE]
       /\ reqs' = [reqs EXCEPT ![r] = IdleReq]
  ELSE /\ reqs' = [reqs EXCEPT ![r].pc = "low", ![r].primary = stored,
                                ![r].row = NoRow, ![r].notify = FALSE]
       /\ UNCHANGED lastResp

\* emitEvent: INSERT INTO events runs, the trigger decides; an error is logged and swallowed
emitEvent(r, ok) ==
  /\ reqs[r].pc = "emit"
  /\ IF ok
     THEN /\ nextEventId <= MaxEvents
          /\ LET row == EventRow(PrimaryType(reqs[r].op), reqs[r].seller, reqs[r].pid,
                                  PrimaryPayload(reqs[r].op, reqs[r].qty)) IN
             reqs' = [reqs EXCEPT ![r].pc = "emitCommit", ![r].row = row,
                                  ![r].notify = TriggerNotifies(row)]
          /\ nextEventId' = nextEventId + 1
          /\ UNCHANGED lastResp
     ELSE /\ AfterEmit(r, FALSE)
          /\ UNCHANGED nextEventId
  /\ UNCHANGED <<now, peer, listing, store, products, nextProductId, events, published, lsnVars, inbox, sseVars>>

\* a notification that goes out although the INSERT does not commit
CommitRow_rolledBack(row, notify) ==
  /\ events' = events
  /\ IF notify
     THEN /\ published' = published \cup {row.id}
          /\ inbox' = Deliver(inbox, row)
          /\ peer' = PeerDeliver(peer, row)
     ELSE UNCHANGED <<published, inbox, peer>>

\* the INSERT's implicit transaction commits: the row is visible, the notification is sent
CommitRow(row, notify) ==
  /\ events' = events \cup {row}
  /\ IF notify
     THEN /\ published' = published \cup {row.id}
          /\ inbox' = Deliver(inbox, row)
          /\ peer' = PeerDeliver(peer, row)
     ELSE UNCHANGED <<published, inbox, peer>>

emitEventCommit(r) ==
  /\ reqs[r].pc = "emitCommit"
  /\ CommitRow(reqs[r].row, reqs[r].notify)
  /\ AfterEmit(r, TRUE)
  /\ UNCHANGED <<now, listing, store, products, nextProductId, nextEventId, lsnVars, sseVars>>

\* pg_notify raises inside notify_event (the trigger has no exception block): the INSERT
\* is aborted and its row is not stored; emitEvent swallows the error,
\* checkAndEmitLowStockWarning rethrows it
PublishFails(r) ==
  /\ reqs[r].pc \in {"emitCommit", "lowCommit"}
  /\ reqs[r].notify
  /\ IF reqs[r].pc = "emitCommit" THEN AfterEmit(r, FALSE) ELSE Respond(r, 500)
  /\ UNCHANGED <<now, peer, listing, store, products, nextProductId, events, nextEventId, published,
                 lsnVars, inbox, sseVars>>

\* the INSERT INTO events of either caller, taken on its own
appendEvent(r, type, s, pid) ==
  /\ reqs[r].pc = "idle"
  /\ nextEventId <= MaxEvents
  /\ LET row == EventRow(type, s, pid,
                   IF type = "LowStockWarning" THEN [kind |-> "lowstock", quantity |-> 3]
                   ELSE [kind |-> "product", quantity |-> 3]) IN
     reqs' = [reqs EXCEPT ![r] = [IdleReq EXCEPT !.pc = "appendCommit", !.row = row,
                                     !.notify = TriggerNotifies(row)]]
  /\ nextEventId' = nextEventId + 1
  /\ UNCHANGED <<now, peer, listing, store, products, nextProductId, events, published, lastResp, lsnVars, inbox, sseVars>>

appendCommit(r) ==
  /\ reqs[r].pc = "appendCommit"
  /\ CommitRow(reqs[r].row, reqs[r].notify)
  /\ reqs' = [reqs EXCEPT ![r] = IdleReq]
  /\ UNCHANGED <<now, listing, store, products, nextProductId, nextEventId, lastResp, lsnVars, sseVars>>

\* the comparison made strict
IsLowStock_strict(q) == q < LOW_STOCK_THRESHOLD

\* stockService: product.quantity <= config.LOW_STOCK_THRESHOLD
IsLowStock(q) == q <= LOW_STOCK_THRESHOLD

\* checkAndEmitLowStockWarning: the check and the INSERT; an error is logged and rethrown
checkAndEmitLowStockWarning(r, ok) ==
  /\ reqs[r].pc = "low"
  /\ IF ~IsLowStock(reqs[r].qty)
     THEN /\ ok
          /\ Respond(r, IF reqs[r].op = "create" THEN 201 ELSE 200)
          /\ UNCHANGED nextEventId
     ELSE IF ok
     THEN /\ nextEventId <= MaxEvents
          /\ LET row == EventRow("LowStockWarning", reqs[r].seller, reqs[r].pid,
                                  [kind |-> "lowstock", quantity |-> reqs[r].qty]) IN
             reqs' = [reqs EXCEPT ![r].pc = "lowCommit", ![r].row = row,
                                  ![r].notify = TriggerNotifies(row)]
          /\ nextEventId' = nextEventId + 1
          /\ UNCHANGED lastResp
     ELSE /\ Respond(r, 500)
          /\ UNCHANGED nextEventId
  /\ UNCHANGED <<now, peer, listing, store, products, nextProductId, events, published, lsnVars, inbox, sseVars>>

\* the warning's INSERT commits, then the verification SELECT and the response
LowStockCommit(r, ok) ==
  /\ reqs[r].pc = "lowCommit"
  /\ CommitRow(reqs[r].row, reqs[r].notify)
  /\ lastResp' = [op |-> reqs[r].op,
                  status |-> IF ~ok THEN 500 ELSE IF reqs[r].op = "create" THEN 201 ELSE 200,
                  pid |-> reqs[r].pid, qty |-> reqs[r].qty, mutated |-> reqs[r].mutated,
                  primary |-> reqs[r].primary, low |-> TRUE]
  /\ reqs' = [reqs EXCEPT ![r] = IdleReq]
  /\ UNCHANGED <<now, listing, store, products, nextProductId, nextEventId, lsnVars, sseVars>>

\* ------------------------------------------------------- client registry
\* removedBy, late, severedAt and early (registered before any event was appended) record
\* history for the properties; the code does not read them
NoClient == [sellerId |-> "none", lastActivity |-> 0, heartbeat |-> FALSE,
             nextBeat |-> 0, transport |-> "none", wired |-> FALSE,
             removedBy |-> "none", late |-> FALSE, severedAt |-> 0, early |-> FALSE]

Registered(c) == c \in SeqToSet(clients)

\* the splice without the idx >= 0 test: splice(-1, 1) takes the last entry away
removeClient_unguarded(reg, c) ==
  IF c \in SeqToSet(reg) THEN SelectSeqBy(reg, SeqToSet(reg) \ {c})
  ELSE IF reg = <<>> THEN reg ELSE SubSeq(reg, 1, Len(reg) - 1)

\* removeClient: the registry without the client, if findIndex finds it
removeClient(reg, c) ==
  IF c \in SeqToSet(reg) THEN SelectSeqBy(reg, SeqToSet(reg) \ {c}) ELSE reg

\* a removal that leaves the interval running
clearHeartbeat_forgotten(reg, clr, c, why) ==
  IF c \in SeqToSet(reg) THEN [clr EXCEPT ![c].removedBy = why] ELSE clr

\* removeClient: clearInterval(client.heartbeat), only when the client was found
clearHeartbeat(reg, clr, c, why) ==
  IF c \in SeqToSet(reg)
  THEN [clr EXCEPT ![c].heartbeat = FALSE, ![c].removedBy = why]
  ELSE clr

ConnectedFrame(s) ==
  [event |-> "message", data |-> [type |-> "Connected", sellerId |-> s], src |-> NoRow]

PingFrame == [event |-> "ping", data |-> now, src |-> NoRow]

\* a stream open that replays the seller's stored events after the acknowledgement
OpenStream_backfill(s, ok) ==
  /\ nextClientId <= MaxClients
  /\ ok
  /\ LET id == nextClientId
         history == {e \in events : e.seller_id = s} IN
     /\ nextClientId' = id + 1
     /\ clients' = Append(clients, id)
     /\ cl' = [cl EXCEPT ![id] = [NoClient EXCEPT !.sellerId = s, !.lastActivity = now,
                  !.heartbeat = TRUE, !.nextBeat = now + HEARTBEAT_INTERVAL,
                  !.transport = "open", !.wired = TRUE, !.severedAt = now,
                  !.early = (nextEventId = 1)]]
     /\ \E e \in history \cup {NoRow} :
          written' = [written EXCEPT ![id] =
                        IF e = NoRow THEN <<ConnectedFrame(s)>>
                        ELSE <<ConnectedFrame(s),
                              [event |-> e.type, data |-> e, src |-> e]>>]
  /\ UNCHANGED <<now, peer, listing, store, dbVars, lsnVars, inbox>>

\* a stream open that leaves the client registered when the acknowledgement cannot be written
OpenStream_ackFailureIgnored(s, ok) ==
  /\ nextClientId <= MaxClients
  /\ LET id == nextClientId
         client == [NoClient EXCEPT !.sellerId = s, !.lastActivity = now,
                       !.heartbeat = TRUE, !.nextBeat = now + HEARTBEAT_INTERVAL,
                       !.transport = IF ok THEN "open" ELSE "severed",
                       !.severedAt = now, !.early = (nextEventId = 1)] IN
     /\ nextClientId' = id + 1
     /\ clients' = Append(clients, id)
     /\ cl' = [cl EXCEPT ![id] = [client EXCEPT !.wired = TRUE]]
     /\ written' = IF ok THEN [written EXCEPT ![id] = Append(@, ConnectedFrame(s))]
                   ELSE written
  /\ UNCHANGED <<now, peer, listing, store, dbVars, lsnVars, inbox>>

\* GET /events/stream: register, start the heartbeat, write the acknowledgement
\* (ok = FALSE: the write throws, the client is removed and no handler is installed)
OpenStream(s, ok) ==
  /\ nextClientId <= MaxClients
  /\ LET id == nextClientId
         client == [NoClient EXCEPT !.sellerId = s, !.lastActivity = now,
                       !.heartbeat = TRUE, !.nextBeat = now + HEARTBEAT_INTERVAL,
                       !.transport = IF ok THEN "open" ELSE "severed",
                       !.severedAt = now, !.early = (nextEventId = 1)]
         pushed == Append(clients, id)
         cl1 == [cl EXCEPT ![id] = client] IN
     /\ nextClientId' = id + 1
     /\ IF ok
        THEN /\ clients' = pushed
             /\ cl' = [cl1 EXCEPT ![id].lastActivity = now, ![id].wired = TRUE]
             /\ written' = [written EXCEPT ![id] = Append(@, ConnectedFrame(s))]
        ELSE /\ clients' = removeClient(pushed, id)
             /\ cl' = clearHeartbeat(pushed, cl1, id, "ack")
             /\ UNCHANGED written
  /\ UNCHANGED <<now, peer, listing, store, dbVars, lsnVars, inbox>>

\* req.on('close'): the client went away
ReqClose(c) ==
  /\ cl[c].transport \in {"open", "severed", "errored"}
  /\ clients' = IF cl[c].wired THEN removeClient(clients, c) ELSE clients
  /\ cl' = [(IF cl[c].wired THEN clearHeartbeat(clients, cl, c, "close") ELSE cl)
              EXCEPT ![c].transport = "closed"]
  /\ UNCHANGED <<now, peer, listing, store, dbVars, lsnVars, inbox, nextClientId, written>>

\* req.on('error')
ReqError(c) ==
  /\ cl[c].transport \in {"open", "severed"}
  /\ clients' = IF cl[c].wired THEN removeClient(clients, c) ELSE clients
  /\ cl' = [(IF cl[c].wired THEN clearHeartbeat(clients, cl, c, "error") ELSE cl)
              EXCEPT ![c].transport = "errored"]
  /\ UNCHANGED <<now, peer, listing, store, dbVars, lsnVars, inbox, nextClientId, written>>

\* the transport breaks and neither 'close' nor 'error' is raised
Sever(c) ==
  /\ cl[c].transport = "open"
  /\ cl' = [cl EXCEPT ![c].transport = "severed", ![c].severedAt = now]
  /\ UNCHANGED <<now, peer, listing, store, dbVars, lsnVars, inbox, clients, nextClientId, written>>

\* a timeout test that is already true one interval after the last write
TimedOut_oneInterval(c) == now - cl[c].lastActivity >= HEARTBEAT_INTERVAL

\* the timeout test of the interval callback
TimedOut(c) == now - cl[c].lastActivity > CLIENT_TIMEOUT

\* setupHeartbeat: one run of the interval callback of client c
\* (ok = FALSE: the ping write throws, which only a broken transport does)
Heartbeat(c, ok) ==
  /\ cl[c].heartbeat
  /\ now >= cl[c].nextBeat
  /\ IF TimedOut(c)
     THEN /\ ok
          /\ clients' = removeClient(clients, c)
          /\ cl' = [clearHeartbeat(clients, cl, c, "timeout")
                      EXCEPT ![c].nextBeat = now + HEARTBEAT_INTERVAL]
          /\ UNCHANGED written
     ELSE IF ok
     THEN /\ written' = [written EXCEPT ![c] = Append(@, PingFrame)]
          /\ cl' = [cl EXCEPT ![c].lastActivity = now,
                               ![c].nextBeat = now + HEARTBEAT_INTERVAL]
          /\ UNCHANGED clients
     ELSE /\ cl[c].transport # "open"
          /\ clients' = removeClient(clients, c)
          /\ cl' = [clearHeartbeat(clients, cl, c, "pulse")
                      EXCEPT ![c].nextBeat = now + HEARTBEAT_INTERVAL]
          /\ UNCHANGED written
  /\ UNCHANGED <<now, peer, listing, store, dbVars, lsnVars, inbox, nextClientId>>

\* ------------------------------------------------------------ dispatcher
\* the fan-out without the seller filter
TargetClients_unfiltered(reg, clr, n) ==
  SelectSeqBy(reg, ClientIds)

\* clients.filter(c => c.sellerId === targetSeller)
TargetClients(reg, clr, n) ==
  SelectSeqBy(reg, {c \in ClientIds : clr[c].sellerId = n.seller_id})

\* the frame written for a notification: LowStockWarning is reshaped, the rest passed through
FormatFrame(n) ==
  IF n.type = "LowStockWarning"
  THEN [event |-> n.type,
        data |-> [type |-> "LowStockWarning",
                  product |-> [id |-> n.product_id, quantity |-> n.payload.quantity]],
        src |-> n]
  ELSE [event |-> n.type, data |-> n, src |-> n]

\* JSON.parse(msg.payload) throws
Unparseable(n) == n.type = "unparseable"

\* a LowStockWarning without its nested payload: payload.payload.name throws a TypeError
NestedPayloadAbsent(n) == n.type = "LowStockWarning" /\ n.payload.kind = "absent"

\* F = the clients for which the per-client try block throws: a write can throw only on
\* a transport that is no longer open; the formatting of a LowStockWarning without its
\* nested payload throws for every target, before the write
MayThrow(reg, clr, n, F) ==
  IF NestedPayloadAbsent(n)
  THEN F = SeqToSet(TargetClients(reg, clr, n))
  ELSE /\ F \subseteq SeqToSet(TargetClients(reg, clr, n))
       /\ \A c \in F : clr[c].transport # "open"

\* a pass that gives up at a failing write: nobody gets the frame
HandleNotification_abortPass(st, n, F) ==
  [clients |-> SelectSeqBy(st.clients, SeqToSet(st.clients) \ F),
   cl |-> [c \in ClientIds |->
             IF c \in F THEN [st.cl[c] EXCEPT !.heartbeat = FALSE, !.removedBy = "write"]
             ELSE IF F = {} /\ c \in SeqToSet(TargetClients(st.clients, st.cl, n))
                  THEN [st.cl[c] EXCEPT !.lastActivity = now]
             ELSE st.cl[c]],
   written |-> [c \in ClientIds |->
             IF F = {} /\ c \in SeqToSet(TargetClients(st.clients, st.cl, n))
             THEN Append(st.written[c], FormatFrame(n)) ELSE st.written[c]]]

\* a pass that writes the frames and leaves lastActivity as it was
HandleNotification_noRefresh(st, n, F) ==
  LET targets == SeqToSet(TargetClients(st.clients, st.cl, n))
      sent == targets \ F IN
  [clients |-> SelectSeqBy(st.clients, SeqToSet(st.clients) \ F),
   cl |-> [c \in ClientIds |->
             IF c \in F THEN [st.cl[c] EXCEPT !.heartbeat = FALSE, !.removedBy = "write"]
             ELSE st.cl[c]],
   written |-> [c \in ClientIds |->
             IF c \in sent THEN Append(st.written[c], FormatFrame(n)) ELSE st.written[c]]]

\* one run of the notification handler; F = the clients whose write throws (deadClients)
HandleNotification(st, n, F) ==
  IF Unparseable(n) THEN st ELSE
  LET targets == SeqToSet(TargetClients(st.clients, st.cl, n))
      sent == targets \ F IN
  [clients |-> SelectSeqBy(st.clients, SeqToSet(st.clients) \ F),
   cl |-> [c \in ClientIds |->
             IF c \in sent THEN [st.cl[c] EXCEPT !.lastActivity = now]
             ELSE IF c \in F THEN [st.cl[c] EXCEPT !.heartbeat = FALSE, !.removedBy = "write"]
             ELSE st.cl[c]],
   written |-> [c \in ClientIds |->
             IF c \in sent THEN Append(st.written[c], FormatFrame(n)) ELSE st.written[c]]]

\* the connection emits 'notification': every handler attached to it runs
Dispatch(k) ==
  /\ inbox[k] # <<>>
  /\ LET n == Head(inbox[k])
         h == lconn[k].handlers
         st0 == [clients |-> clients, cl |-> cl, written |-> written] IN
     \E F1 \in SUBSET ClientIds, F2 \in SUBSET ClientIds :
        /\ IF h >= 1 THEN MayThrow(st0.clients, st0.cl, n, F1) ELSE F1 = {}
        /\ LET st1 == IF h >= 1 THEN HandleNotification(st0, n, F1) ELSE st0 IN
           /\ IF h >= 2 THEN MayThrow(st1.clients, st1.cl, n, F2) ELSE F2 = {}
           /\ LET st2 == IF h >= 2 THEN HandleNotification(st1, n, F2) ELSE st1 IN
              /\ clients' = st2.clients
              /\ cl' = st2.cl
              /\ written' = st2.written
  /\ inbox' = [inbox EXCEPT ![k] = Tail(@)]
  /\ UNCHANGED <<now, peer, listing, store, dbVars, lsnVars, nextClientId>>

\* ------------------------------------- notifications from other senders
\* what another session can put on events_channel: text that is not JSON, a document
\* without seller_id, a LowStockWarning whose nested payload is null
MalformedNotifications ==
  {[NoRow EXCEPT !.type = "unparseable"],
   [NoRow EXCEPT !.type = "ProductUpdated", !.product_id = 1]}
  \cup {[NoRow EXCEPT !.type = "LowStockWarning", !.seller_id = s, !.product_id = 1,
                        !.payload = [kind |-> "absent", quantity |-> 0]] : s \in Sellers}

\* NOTIFY events_channel issued by a session other than the trigger
ForeignNotify(n) ==
  /\ \A k \in ConnIds : Len(inbox[k]) < MaxForeign
  /\ inbox' = Deliver(inbox, n)
  /\ peer' = PeerDeliver(peer, n)
  /\ UNCHANGED <<now, listing, store, dbVars, lsnVars, sseVars>>

\* ------------------------------------------------------- GET /products
NoListing == [seller |-> "none", page |-> <<>>, limit |-> <<>>, data |-> <<>>,
              pageNum |-> 0, limitNum |-> 0, total |-> 0, totalPages |-> 0,
              hasNext |-> FALSE, hasPrev |-> FALSE]

Max(a, b) == IF a >= b THEN a ELSE b
Min(a, b) == IF a <= b THEN a ELSE b

\* parseInt(v) || d: NaN and 0 are falsy
ParseIntOr(v, d) == IF v = <<>> \/ v[1] = 0 THEN d ELSE v[1]

\* Math.ceil(a / b), b > 0
Ceil(a, b) == (a + b - 1) \div b

\* Math.min(100, Math.max(1, parseInt(limit) || 10))
LimitNum(limit) == Min(100, Max(1, ParseIntOr(limit, 10)))

\* Math.max(1, parseInt(page) || 1)
PageNum(page) == Max(1, ParseIntOr(page, 1))

\* SELECT * FROM products WHERE seller_id = $1
OwnedIds(s) == {p \in ProductIds : products[p].exists /\ products[p].seller_id = s}

RECURSIVE NewestFirst(_)
\* ORDER BY created_at DESC: the later insert, with the larger serial id, first
NewestFirst(ids) ==
  IF ids = {} THEN <<>>
  ELSE LET m == CHOOSE x \in ids : \A y \in ids : y <= x IN
       <<m>> \o NewestFirst(ids \ {m})

\* LIMIT $n OFFSET $m
LimitOffset(rows, lim, off) ==
  SubSeq(rows, off + 1, Min(Len(rows), off + lim))

\* GET /products?page=&limit= for seller s
ListProducts(s, page, limit) ==
  /\ LET pageNum == PageNum(page)
         limitNum == LimitNum(limit)
         offset == (pageNum - 1) * limitNum
         total == Cardinality(OwnedIds(s))
         totalPages == Ceil(total, limitNum) IN
     listing' = [seller |-> s, page |-> page, limit |-> limit,
                 data |-> LimitOffset(NewestFirst(OwnedIds(s)), limitNum, offset),
                 pageNum |-> pageNum, limitNum |-> limitNum, total |-> total,
                 totalPages |-> totalPages,
                 hasNext |-> (pageNum < totalPages), hasPrev |-> (pageNum > 1)]
  /\ UNCHANGED <<now, peer, store, dbVars, lsnVars, inbox, sseVars>>

\* ------------------------------------------------ notificationsSlice
\* a notification id `${kind}-${productId}-${timestamp}` is kept as its three parts
StoreKinds == {"low-stock", "created", "updated", "deleted"}
StorePids == {1, 12}
StoreIds == {<<k, p, t>> : k \in StoreKinds \cup {"error"}, p \in StorePids \cup {0}, t \in 0..MaxTime}

\* hasDuplicateNotification's default timeWindow, 5000 ms, in seconds
timeWindow == 5

\* the ids a component can dispatch with: those of the stored notifications, which it
\* renders, and one that is stored nowhere
UnknownId == <<"error", 0, 0>>
DispatchIds(st) == {st.notifications[i].id : i \in 1..Len(st.notifications)} \cup {UnknownId}

initialState == [notifications |-> <<>>, unreadCount |-> 0, isConnected |-> FALSE]

\* Array.prototype.findIndex: the first index whose entry has the id, 0 for -1
FindIndex(ns, id) ==
  IF \E i \in 1..Len(ns) : ns[i].id = id
  THEN CHOOSE i \in 1..Len(ns) : ns[i].id = id /\ \A j \in 1..(i - 1) : ns[j].id # id
  ELSE 0

\* state.notifications.unshift(n)
Unshift(ns, n) == <<n>> \o ns

\* state.notifications.splice(index, 1)
Splice(ns, i) == SubSeq(ns, 1, i - 1) \o SubSeq(ns, i + 1, Len(ns))

AddNotification(st, n) ==
  [st EXCEPT !.notifications = Unshift(@, n),
             !.unreadCount = IF ~n.read THEN @ + 1 ELSE @]

\* a markAsRead that decrements whenever the id is found
MarkAsRead_unguarded(st, id) ==
  LET i == FindIndex(st.notifications, id) IN
  IF i # 0
  THEN [st EXCEPT !.notifications[i].read = TRUE, !.unreadCount = @ - 1]
  ELSE st

MarkAsRead(st, id) ==
  LET i == FindIndex(st.notifications, id) IN
  IF i # 0 /\ ~st.notifications[i].read
  THEN [st EXCEPT !.notifications[i].read = TRUE, !.unreadCount = @ - 1]
  ELSE st

MarkAllAsRead(st) ==
  [st EXCEPT !.notifications = [i \in 1..Len(@) |-> [@[i] EXCEPT !.read = TRUE]],
             !.unreadCount = 0]

RemoveNotification(st, id) ==
  LET i == FindIndex(st.notifications, id) IN
  IF i # 0
  THEN [st EXCEPT !.notifications = Splice(@, i),
                  !.unreadCount = IF ~st.notifications[i].read THEN @ - 1 ELSE @]
  ELSE st

ClearAllNotifications(st) == [st EXCEPT !.notifications = <<>>, !.unreadCount = 0]

\* String.prototype.includes on `${kind}-${productId}-...`: the kind is the same and the
\* digits of the product id asked for begin the digits of the stored one
IdIncludes(id, kind, pid) ==
  id[1] = kind /\ (id[2] = pid \/ (id[2] >= 10 /\ id[2] \div 10 = pid))

\* hasDuplicateNotification: only the newest entry is looked at
HasDuplicateNotification(st, kind, pid) ==
  /\ st.notifications # <<>>
  /\ IdIncludes(st.notifications[1].id, kind, pid)
  /\ st.notifications[1].timestamp > now - timeWindow

SSEKind(type) ==
  CASE type = "LowStockWarning" -> "low-stock"
    [] type = "ProductCreated"  -> "created"
    [] type = "ProductUpdated"  -> "updated"
    [] OTHER                    -> "deleted"

SSEEvents ==
  {[type |-> "Connected", pid |-> 0, product |-> FALSE]}
  \cup {[type |-> "LowStockWarning", pid |-> p, product |-> b] : p \in StorePids, b \in BOOLEAN}
  \cup {[type |-> t, pid |-> p, product |-> FALSE] :
           t \in {"ProductCreated", "ProductUpdated", "ProductDeleted"}, p \in StorePids}

\* handleSSEEvent; product = FALSE on a LowStockWarning: the event carries no product object
HandleSSEEvent(st, ev) ==
  IF ev.type = "Connected" THEN [st EXCEPT !.isConnected = TRUE]
  ELSE IF ev.type = "LowStockWarning" /\ ~ev.product THEN st
  ELSE IF HasDuplicateNotification(st, SSEKind(ev.type), ev.pid) THEN st
  ELSE [st EXCEPT !.notifications =
                     Unshift(@, [id |-> <<SSEKind(ev.type), ev.pid, now>>,
                                 read |-> FALSE, timestamp |-> now]),
                  !.unreadCount = @ + 1]

StoreStep(next) ==
  /\ Len(next.notifications) <= MaxNotifications
  /\ store' = next
  /\ UNCHANGED <<now, peer, listing, dbVars, lsnVars, inbox, sseVars>>

\* dispatch(addNotification(...)), as useErrorHandler does with id `error-${Date.now()}`
addNotification(read) ==
  StoreStep(AddNotification(store, [id |-> <<"error", 0, now>>, read |-> read, timestamp |-> now]))

markAsRead(id) == StoreStep(MarkAsRead(store, id))
markAllAsRead == StoreStep(MarkAllAsRead(store))
removeNotification(id) == StoreStep(RemoveNotification(store, id))
clearAllNotifications == StoreStep(ClearAllNotifications(store))
setConnectionStatus(b) == StoreStep([store EXCEPT !.isConnected = b])
handleSSEEvent(ev) == StoreStep(HandleSSEEvent(store, ev))

\* ------------------------------------------------- the second worker
\* cluster.fork(): every worker runs startServer and has its own copy of the module
\* state of sse/events.ts (clients, nextClientId) and its own LISTEN connection
NoPeer == [running |-> FALSE, listening |-> FALSE, inbox |-> <<>>,
           clients |-> <<>>, nextClientId |-> 1,
           cl |-> [c \in ClientIds |-> NoClient],
           written |-> [c \in ClientIds |-> <<>>]]

\* GET /events/stream accepted by the second worker: the client goes into that
\* worker's registry, with an identifier from that worker's counter
PeerOpenStream(s) ==
  /\ peer.running
  /\ peer.nextClientId <= MaxPeerClients
  /\ LET id == peer.nextClientId
         client == [NoClient EXCEPT !.sellerId = s, !.lastActivity = now,
                       !.heartbeat = TRUE, !.nextBeat = now + HEARTBEAT_INTERVAL,
                       !.transport = "open", !.wired = TRUE,
                       !.severedAt = now, !.early = (nextEventId = 1)] IN
     peer' = [peer EXCEPT !.nextClientId = id + 1,
                          !.clients = Append(@, id),
                          !.cl = [@ EXCEPT ![id] = client],
                          !.written = [@ EXCEPT ![id] = Append(@, ConnectedFrame(s))]]
  /\ UNCHANGED <<now, listing, store, dbVars, lsnVars, inbox, sseVars>>

\* the second worker's connection emits 'notification': its handler runs on its registry
PeerDispatch ==
  /\ peer.running
  /\ peer.inbox # <<>>
  /\ LET n == Head(peer.inbox)
         st0 == [clients |-> peer.clients, cl |-> peer.cl, written |-> peer.written] IN
     \E F \in SUBSET ClientIds :
        /\ MayThrow(st0.clients, st0.cl, n, F)
        /\ LET st1 == HandleNotification(st0, n, F) IN
           peer' = [peer EXCEPT !.inbox = Tail(@), !.clients = st1.clients,
                                !.cl = st1.cl, !.written = st1.written]
  /\ UNCHANGED <<now, listing, store, dbVars, lsnVars, inbox, sseVars>>

\* ------------------------------------------- registerEventBroadcaster
\* a connection the pool can hand out and query
Healthy(k) == lconn[k].st \in {"out", "idle"}

\* pool.connect(): an idle client if there is one, else a new one
Available ==
  IF \E k \in ConnIds : lconn[k].st = "idle"
  THEN {k \in ConnIds : lconn[k].st = "idle"}
  ELSE {k \in ConnIds : lconn[k].st = "new"}

\* client.release(): back to the pool; a second release of the same client throws
CanRelease(lc, g) == g # 0 /\ lc[g].st # "idle"
Released(lc, g) == IF lc[g].st = "out" THEN [lc EXCEPT ![g].st = "idle"] ELSE lc

\* the connection fails: 'error' is emitted and every error handler sets a retry timer
ConnError(k) ==
  /\ Healthy(k)
  /\ lconn[k].handlers > 0
  /\ timers + lconn[k].handlers <= MaxTimers
  /\ lconn' = [lconn EXCEPT ![k].st = "broken", ![k].listening = FALSE]
  /\ inbox' = [inbox EXCEPT ![k] = <<>>]
  /\ timers' = timers + lconn[k].handlers
  /\ UNCHANGED <<now, peer, listing, store, dbVars, pgClient, calls, sseVars>>

\* the broken connection ends: the client emits 'error' once more
ConnEnd(k) ==
  /\ lconn[k].st = "broken"
  /\ timers + lconn[k].handlers <= MaxTimers
  /\ lconn' = [lconn EXCEPT ![k].st = "ended"]
  /\ timers' = timers + lconn[k].handlers
  /\ UNCHANGED <<now, peer, listing, store, dbVars, pgClient, calls, inbox, sseVars>>

\* a retry timer fires: registerEventBroadcaster starts and awaits its first query
StartCall(i) ==
  /\ timers > 0
  /\ calls[i].pc = "idle"
  /\ timers' = timers - 1
  /\ calls' = [calls EXCEPT ![i] =
                 IF pgClient # 0 THEN [pc |-> "unlisten", k |-> pgClient]
                 ELSE [pc |-> "connect", k |-> 0]]
  /\ UNCHANGED <<now, peer, listing, store, dbVars, pgClient, lconn, inbox, sseVars>>

\* lines 142-149: the unlisten returns; on success pgClient.release(); errors are logged
UnlistenDone(i) ==
  /\ calls[i].pc = "unlisten"
  /\ LET k == calls[i].k
         lc1 == [lconn EXCEPT ![k].listening = FALSE] IN
     lconn' = IF Healthy(k)
              THEN (IF CanRelease(lc1, pgClient) THEN Released(lc1, pgClient) ELSE lc1)
              ELSE lconn
  /\ calls' = [calls EXCEPT ![i] = [pc |-> "connect", k |-> 0]]
  /\ UNCHANGED <<now, peer, listing, store, dbVars, pgClient, timers, inbox, sseVars>>

\* line 151: pgClient = await pool.connect(); then the listen query is sent.
\* ok = FALSE: the pool cannot give a connection and the call rejects
ConnectDone(i, k, ok) ==
  /\ calls[i].pc = "connect"
  /\ IF ok
     THEN /\ k \in Available
          /\ lconn' = [lconn EXCEPT ![k].st = "out"]
          /\ pgClient' = k
          /\ calls' = [calls EXCEPT ![i] = [pc |-> "listen", k |-> k]]
     ELSE /\ k = 1
          /\ calls' = [calls EXCEPT ![i] = IdleCall]
          /\ UNCHANGED <<lconn, pgClient>>
  /\ UNCHANGED <<now, peer, listing, store, dbVars, timers, inbox, sseVars>>

\* lines 153-256: the listen returns. On success the handlers go on the current pgClient;
\* on failure pgClient.release() and a retry timer, unless the release throws
ListenDone(i, ok) ==
  /\ calls[i].pc = "listen"
  /\ LET k == calls[i].k
         g == pgClient IN
     IF ok
     THEN /\ Healthy(k)
          /\ lconn[g].handlers + 1 \in HandlerCounts
          /\ lconn' = [[lconn EXCEPT ![k].listening = TRUE]
                          EXCEPT ![g].handlers = @ + 1]
          /\ UNCHANGED timers
     ELSE /\ timers < MaxTimers
          /\ lconn' = Released(lconn, g)
          /\ timers' = IF CanRelease(lconn, g) THEN timers + 1 ELSE timers
  /\ calls' = [calls EXCEPT ![i] = IdleCall]
  /\ UNCHANGED <<now, peer, listing, store, dbVars, pgClient, inbox, sseVars>>

\* ------------------------------------------------------------------ time
\* the clock is read just before and at the end of each dedup window: 0, 4, 5, 9, ...
Tick ==
  /\ now < MaxTime
  /\ now' = IF now % DEDUP_WINDOW = 0 THEN now + DEDUP_WINDOW - 1 ELSE now + 1
  /\ UNCHANGED <<peer, listing, store, dbVars, lsnVars, inbox, sseVars>>

\* time passes by one heartbeat interval once every interval callback that is due has run
Elapse ==
  /\ now + HEARTBEAT_INTERVAL <= MaxLiveTime
  /\ \A c \in ClientIds : cl[c].heartbeat => now < cl[c].nextBeat
  /\ now' = now + HEARTBEAT_INTERVAL
  /\ UNCHANGED <<peer, listing, store, dbVars, lsnVars, inbox, sseVars>>

\* the process does not run for longer than the client timeout (event loop blocked,
\* process suspended): the callbacks that were due meanwhile run late
Stall ==
  /\ now + CLIENT_TIMEOUT + HEARTBEAT_INTERVAL <= MaxLiveTime
  /\ now' = now + CLIENT_TIMEOUT + HEARTBEAT_INTERVAL
  /\ cl' = [c \in ClientIds |->
             IF cl[c].heartbeat /\ now + CLIENT_TIMEOUT + HEARTBEAT_INTERVAL > cl[c].nextBeat
             THEN [cl[c] EXCEPT !.late = TRUE] ELSE cl[c]]
  /\ UNCHANGED <<peer, listing, store, dbVars, lsnVars, inbox, clients, nextClientId, written>>

\* ------------------------------------------------------- specification

\* after startServer: schema initialised, one connection listening with its handler
Init ==
  /\ now = 0
  /\ products = [p \in ProductIds |-> NoProduct]
  /\ nextProductId = 1
  /\ events = {}
  /\ nextEventId = 1
  /\ published = {}
  /\ reqs = [r \in ReqSlots |-> IdleReq]
  /\ lastResp = NoResp
  /\ pgClient = 1
  /\ timers = 0
  /\ calls = [i \in CallIds |-> IdleCall]
  /\ lconn = [k \in ConnIds |->
               IF k = 1 THEN [st |-> "out", listening |-> TRUE, handlers |-> 1] ELSE NoConn]
  /\ inbox = [k \in ConnIds |-> <<>>]
  /\ clients = <<>>
  /\ nextClientId = 1
  /\ cl = [c \in ClientIds |-> NoClient]
  /\ written = [c \in ClientIds |-> <<>>]
  /\ peer = NoPeer
  /\ listing = NoListing
  /\ store = initialState

\* CLUSTER=1 or NODE_ENV=production: after the bootstrap two workers have run
\* startServer, each listening on events_channel with its own connection
InitCluster ==
  /\ now = 0
  /\ products = [p \in ProductIds |-> NoProduct]
  /\ nextProductId = 1
  /\ events = {}
  /\ nextEventId = 1
  /\ published = {}
  /\ reqs = [r \in ReqSlots |-> IdleReq]
  /\ lastResp = NoResp
  /\ pgClient = 1
  /\ timers = 0
  /\ calls = [i \in CallIds |-> IdleCall]
  /\ lconn = [k \in ConnIds |->
               IF k = 1 THEN [st |-> "out", listening |-> TRUE, handlers |-> 1] ELSE NoConn]
  /\ inbox = [k \in ConnIds |-> <<>>]
  /\ clients = <<>>
  /\ nextClientId = 1
  /\ cl = [c \in ClientIds |-> NoClient]
  /\ written = [c \in ClientIds |-> <<>>]
  /\ peer = [NoPeer EXCEPT !.running = TRUE, !.listening = TRUE]
  /\ listing = NoListing
  /\ store = initialState

\* a catalog after any number of creates and deletes, no request in progress
InitList ==
  /\ now = 0
  /\ products \in [ProductIds ->
        {NoProduct} \cup {[exists |-> TRUE, seller_id |-> s, quantity |-> q] :
                            s \in Sellers, q \in Quantities}]
  /\ nextProductId = 3
  /\ events = {}
  /\ nextEventId = 1
  /\ published = {}
  /\ reqs = [r \in ReqSlots |-> IdleReq]
  /\ lastResp = NoResp
  /\ pgClient = 1
  /\ timers = 0
  /\ calls = [i \in CallIds |-> IdleCall]
  /\ lconn = [k \in ConnIds |->
               IF k = 1 THEN [st |-> "out", listening |-> TRUE, handlers |-> 1] ELSE NoConn]
  /\ inbox = [k \in ConnIds |-> <<>>]
  /\ clients = <<>>
  /\ nextClientId = 1
  /\ cl = [c \in ClientIds |-> NoClient]
  /\ written = [c \in ClientIds |-> <<>>]
  /\ peer = NoPeer
  /\ listing = NoListing
  /\ store = initialState

\* the owner of each product (products.seller_id never changes once the row exists)
OwnerOf(p) == IF p = 1 THEN "s1" ELSE "s2"

\* the event pipeline, entered at the INSERT INTO events of emitEvent and
\* checkAndEmitLowStockWarning
Next ==
  \/ \E t \in {"ProductUpdated", "LowStockWarning"}, p \in ProductIds :
        appendEvent(1, t, OwnerOf(p), p)
  \/ appendCommit(1)
  \/ \E s \in Sellers, ok \in BOOLEAN : OpenStream(s, ok)
  \/ \E c \in ClientIds : ReqClose(c)
  \/ \E c \in ClientIds : ReqError(c)
  \/ \E c \in ClientIds : Sever(c)
  \/ \E k \in ConnIds : Dispatch(k)

Spec == Init /\ [][Next]_vars

\* appends to one product's stream as time passes, one INSERT after the other
NextDedup ==
  \/ \E t \in {"ProductUpdated", "LowStockWarning"} : appendEvent(1, t, "s1", 1)
  \/ appendCommit(1)
  \/ \E s \in Sellers : OpenStream(s, TRUE)
  \/ \E k \in ConnIds : Dispatch(k)
  \/ Tick

SpecDedup == Init /\ [][NextDedup]_vars

\* the product handlers, one request at a time, with the pipeline behind them
NextCatalog ==
  \/ \E s \in Sellers, q \in Quantities, ok \in BOOLEAN : CreateProduct(1, s, q, ok)
  \/ \E s \in Sellers, p \in ProductIds, q \in Quantities, ok \in BOOLEAN :
        UpdateProduct(1, s, p, q, ok)
  \/ \E s \in Sellers, p \in ProductIds, ok \in BOOLEAN : DeleteProduct(1, s, p, ok)
  \/ DeleteCommit(1)
  \/ \E ok \in BOOLEAN : emitEvent(1, ok)
  \/ emitEventCommit(1)
  \/ \E ok \in BOOLEAN : checkAndEmitLowStockWarning(1, ok)
  \/ \E ok \in BOOLEAN : LowStockCommit(1, ok)
  \/ PublishFails(1)
  \/ OpenStream("s1", TRUE)
  \/ \E k \in ConnIds : Dispatch(k)

SpecCatalog == Init /\ [][NextCatalog]_vars

\* the registry, the heartbeat and the clock
NextLive ==
  \/ \E ok \in BOOLEAN : OpenStream("s1", ok)
  \/ \E c \in ClientIds : ReqClose(c)
  \/ \E c \in ClientIds : ReqError(c)
  \/ \E c \in ClientIds : Sever(c)
  \/ \E c \in ClientIds, ok \in BOOLEAN : Heartbeat(c, ok)
  \/ Elapse
  \/ Stall

SpecLive == Init /\ [][NextLive]_vars

\* the broadcaster's connection handling with the pipeline behind it
NextListen ==
  \/ \E k \in ConnIds : ConnError(k)
  \/ \E k \in ConnIds : ConnEnd(k)
  \/ \E i \in CallIds : StartCall(i)
  \/ \E i \in CallIds : UnlistenDone(i)
  \/ \E i \in CallIds, k \in ConnIds, ok \in BOOLEAN : ConnectDone(i, k, ok)
  \/ \E i \in CallIds, ok \in BOOLEAN : ListenDone(i, ok)
  \/ appendEvent(1, "ProductUpdated", "s1", 1)
  \/ appendCommit(1)
  \/ OpenStream("s1", TRUE)
  \/ \E k \in ConnIds : Dispatch(k)

SpecListen == Init /\ [][NextListen]_vars

\* two workers behind one port: the first with its broadcaster's connection handling,
\* the second with a steady connection, and one seller's stream opened on either
NextCluster ==
  \/ \E k \in ConnIds : ConnError(k)
  \/ \E k \in ConnIds : ConnEnd(k)
  \/ \E i \in CallIds : StartCall(i)
  \/ \E i \in CallIds : UnlistenDone(i)
  \/ \E i \in CallIds, k \in ConnIds : ConnectDone(i, k, TRUE)
  \/ \E i \in CallIds : ListenDone(i, TRUE)
  \/ appendEvent(1, "ProductUpdated", "s1", 1)
  \/ appendCommit(1)
  \/ OpenStream("s1", TRUE)
  \/ PeerOpenStream("s1")
  \/ \E k \in ConnIds : Dispatch(k)
  \/ PeerDispatch

SpecCluster == InitCluster /\ [][NextCluster]_vars

\* subscriptions written to by all three writers as time passes: the stream open,
\* the heartbeat and the fan-out
NextActivity ==
  \/ OpenStream("s1", TRUE)
  \/ \E c \in ClientIds : Sever(c)
  \/ \E c \in ClientIds, ok \in BOOLEAN : Heartbeat(c, ok)
  \/ (now < MaxActivityTime /\ Elapse)
  \/ (nextEventId <= MaxActivityEvents /\ appendEvent(1, "ProductUpdated", "s1", 1))
  \/ appendCommit(1)
  \/ \E k \in ConnIds : Dispatch(k)

SpecActivity == Init /\ [][NextActivity]_vars

\* two requests at a time appending to one product's stream, each INSERT in its own
\* transaction on its own pooled connection
NextRace ==
  \/ \E r \in ReqSlots : appendEvent(r, "ProductUpdated", "s1", 1)
  \/ \E r \in ReqSlots : appendCommit(r)
  \/ OpenStream("s1", TRUE)
  \/ \E k \in ConnIds : Dispatch(k)
  \/ Tick

SpecRace == Init /\ [][NextRace]_vars

\* the fan-out fed by the trigger and by other senders on the channel
NextForeign ==
  \/ \E s \in Sellers : OpenStream(s, TRUE)
  \/ \E c \in ClientIds : Sever(c)
  \/ appendEvent(1, "LowStockWarning", "s1", 1)
  \/ appendCommit(1)
  \/ \E n \in MalformedNotifications : ForeignNotify(n)
  \/ \E k \in ConnIds : Dispatch(k)

SpecForeign == Init /\ [][NextForeign]_vars

\* the browser's store under any sequence of its reducers, as the clock goes on
NextStore ==
  \/ \E read \in BOOLEAN : addNotification(read)
  \/ \E id \in DispatchIds(store) : markAsRead(id)
  \/ markAllAsRead
  \/ \E id \in DispatchIds(store) : removeNotification(id)
  \/ clearAllNotifications
  \/ \E b \in BOOLEAN : setConnectionStatus(b)
  \/ \E ev \in SSEEvents : handleSSEEvent(ev)
  \/ Tick

SpecStore == Init /\ [][NextStore]_vars

\* listings of a catalog that does not change meanwhile
NextList ==
  \E s \in Sellers, page \in PageInputs, limit \in LimitInputs : ListProducts(s, page, limit)

SpecList == InitList /\ [][NextList]_vars

\* ------------------------------------------------------------ properties
\* the frames of a client that carry a notification (not the acknowledgement, not a ping)
EventFrames(c) == SelectSeq(written[c], LAMBDA f : f.src # NoRow)

\* the rows whose INSERT is executing or committed
InFlightRows == {reqs[r].row : r \in {x \in ReqSlots : reqs[x].row # NoRow}}

\* C1: partition isolation. Every frame written to a subscription comes from a
\* notification whose seller_id is the seller the subscription was registered for.
C1_PartitionIsolation ==
  \A c \in ClientIds : \A i \in 1..Len(written[c]) :
     written[c][i].src # NoRow => written[c][i].src.seller_id = cl[c].sellerId

\* a subscription got the frames of the first and the third event while the second
\* event, of another seller, was published in between
C1_Witness ==
  \E c \in ClientIds :
     /\ \E i, j \in 1..Len(written[c]) :
           written[c][i].src.id = 1 /\ written[c][j].src.id = 3
     /\ \E e \in events : e.id = 2 /\ e.id \in published /\ e.seller_id # cl[c].sellerId

\* C7: ordering. An INSERT gets an identifier above every identifier given out before,
\* identifiers are unique, and a subscription never sees the frame of a later event
\* before the frame of an earlier one.
C7_IdsIncrease ==
  /\ \A e \in events \cup InFlightRows : e.id < nextEventId
  /\ \A e1, e2 \in events \cup InFlightRows : e1.id = e2.id => e1 = e2

C7_FramesInOrder ==
  \A c \in ClientIds :
     LET fs == EventFrames(c) IN
     \A i, j \in 1..Len(fs) : i < j => fs[i].src.id < fs[j].src.id

C7_Ordering == C7_IdsIncrease /\ C7_FramesInOrder

\* a subscription has the frames of two published events of its seller
C7_Witness ==
  \E c \in ClientIds :
     LET fs == EventFrames(c) IN
     /\ Len(fs) >= 2
     /\ fs[1].src.id \in published /\ fs[2].src.id \in published
     /\ fs[1].src.seller_id = fs[2].src.seller_id

\* C2: atomicity of mutation and primary event. A handler that committed its catalog
\* mutation has stored the primary event of it, and one that stored no primary event
\* has committed no mutation.
C2_SharedFate == lastResp.mutated <=> lastResp.primary

C9_WarningIffLow ==
  (lastResp.op \in {"create", "update"} /\ lastResp.status \in {200, 201})
     => (lastResp.low <=> lastResp.qty <= 5)

C9_WarningCarriesQuantity ==
  /\ \A e \in events \cup InFlightRows :
        e.type = "LowStockWarning" => e.payload.quantity <= 5
  /\ \A r \in ReqSlots : reqs[r].pc = "lowCommit" =>
        /\ reqs[r].row.type = "LowStockWarning"
        /\ reqs[r].row.product_id = reqs[r].pid
        /\ reqs[r].row.seller_id = products[reqs[r].pid].seller_id
        /\ reqs[r].row.payload.quantity = products[reqs[r].pid].quantity

C9_PublishedUnlessRecent ==
  \A e \in events : e.type = "LowStockWarning" =>
     (e.id \in published <=>
        ~ \E d \in events : /\ d.type = "LowStockWarning"
                             /\ d.product_id = e.product_id
                             /\ d.id < e.id
                             /\ e.created_at - d.created_at < 5)

C9_FrameShape ==
  \A c \in ClientIds : \A i \in 1..Len(written[c]) :
     LET f == written[c][i] IN
     f.src # NoRow =>
        /\ f.event = f.src.type
        /\ f.src.id \in published
        /\ IF f.src.type = "LowStockWarning"
           THEN f.data = [type |-> "LowStockWarning",
                          product |-> [id |-> f.src.product_id,
                                       quantity |-> f.src.payload.quantity]]
           ELSE f.data = f.src

DedupPair(e1, e2) ==
  /\ e1.type = e2.type
  /\ e1.product_id = e2.product_id
  /\ e1.id < e2.id
  /\ e2.created_at - e1.created_at < 5

C3_PublishedIffNoneRecent ==
  \A e \in events :
     e.id \in published <=> ~ \E d \in events : DedupPair(d, e)

C3_EveryRowStored ==
  \A i \in 1..(nextEventId - 1) : \E e \in events \cup InFlightRows : e.id = i

C3_FramesOnlyForPublished ==
  \A c \in ClientIds :
     LET fs == EventFrames(c) IN
     /\ \A i \in 1..Len(fs) : fs[i].src.id \in published
     /\ \A i, j \in 1..Len(fs) : fs[i].src.id = fs[j].src.id => i = j

C4_TimeoutClosesTransport ==
  \A c \in ClientIds : cl[c].removedBy = "timeout" => cl[c].transport = "closed"

\* C5 as stated: with every interval callback on time, a subscription whose transport
\* was severed without a close or error signal is out of the registry once 75 seconds
\* have passed and the callback due by then has run.
C5_SeveredRemovedIn75 ==
  \A c \in ClientIds :
     (/\ cl[c].transport = "severed"
      /\ ~cl[c].late
      /\ now - cl[c].severedAt >= 75
      /\ now < cl[c].nextBeat)
       => ~Registered(c)

\* C6: idempotent unregister. Unregistering twice is unregistering once; registering a
\* subscription and unregistering it twice gives the registry back as it was; a step
\* takes out of the registry only the subscription whose close, error, timeout or failed
\* write it handles, once, and leaves the others in place and in order.
C6_TwiceIsOnce ==
  /\ \A c \in ClientIds :
        removeClient(removeClient(clients, c), c) = removeClient(clients, c)
  /\ nextClientId \in ClientIds =>
        removeClient(removeClient(Append(clients, nextClientId), nextClientId),
                     nextClientId) = clients

C6_RegistryWellFormed ==
  /\ \A i, j \in 1..Len(clients) : clients[i] = clients[j] => i = j
  /\ \A c \in ClientIds :
        /\ Registered(c) => cl[c].removedBy = "none" /\ cl[c].heartbeat
        /\ cl[c].removedBy # "none" => ~Registered(c) /\ ~cl[c].heartbeat

C6_RemovesOnlyItsOwn ==
  /\ SelectSeqBy(clients', SeqToSet(clients)) = SelectSeqBy(clients, SeqToSet(clients'))
  /\ \A c \in ClientIds :
        /\ (Registered(c) /\ c \notin SeqToSet(clients')) =>
              /\ cl'[c].removedBy \in {"close", "error", "timeout", "pulse", "write"}
              /\ cl'[c].transport # "open" \/ cl'[c].removedBy = "timeout"
        /\ cl[c].removedBy # "none" => cl'[c].removedBy = cl[c].removedBy

C6_IdempotentUnregister ==
  [](C6_TwiceIsOnce /\ C6_RegistryWellFormed) /\ [][C6_RemovesOnlyItsOwn]_vars

\* the error handler and then the close handler have fired for one connection, after a
\* second subscription was registered, and the second is still in the registry
C6_Witness ==
  \E c, d \in ClientIds :
     /\ c < d
     /\ cl[c].removedBy = "error" /\ cl[c].transport = "closed"
     /\ clients = <<d>>

\* a connection that receives the channel's notifications and has the handler on it
ListenerAttached ==
  \E k \in ConnIds : Healthy(k) /\ lconn[k].listening /\ lconn[k].handlers > 0

\* a registerEventBroadcaster call is running or will run: a timer is set, a call is in
\* flight, or a failed connection has still to report its end
RetryPending ==
  \/ timers > 0
  \/ \E i \in CallIds : calls[i].pc # "idle"
  \/ \E k \in ConnIds : lconn[k].st = "broken" /\ lconn[k].handlers > 0

\* C8 as stated: a subscription registered before the appends receives exactly one
\* frame for a published event of its seller, so never two frames for the same event.
C8_OneFramePerEvent ==
  \A c \in ClientIds :
     LET fs == EventFrames(c) IN
     \A i, j \in 1..Len(fs) :
        (cl[c].early /\ fs[i].src.id = fs[j].src.id) => i = j

\* C10 as stated: as long as no connection is listening with the handler on it, a
\* retry is pending, also after a reconnect attempt that could not get a connection.
C10_RetriesUntilListening == ListenerAttached \/ RetryPending

\* C11 as stated: no dangling events. Every stored event references a product that
\* exists; the events of a deleted product are gone with it.
C11_NoDanglingEvents ==
  \A e \in events : products[e.product_id].exists

\* C12 as stated: secondary-event failure is non-fatal. A create or update whose mutation
\* is committed and whose primary event is stored reports success also when no
\* LowStockWarning could be appended.
C12_SecondaryFailureSwallowed ==
  (/\ lastResp.op \in {"create", "update"}
   /\ lastResp.mutated /\ lastResp.primary /\ ~lastResp.low)
     => lastResp.status \in {200, 201}

\* C13 as stated: publish failure is non-fatal. An INSERT INTO events whose trigger has
\* run ends with its row stored, whether or not the publish succeeded.
C13_PublishFailureKeepsRow ==
  [][\A r \in ReqSlots :
       (reqs[r].pc \in {"emitCommit", "lowCommit"} /\ reqs'[r].pc # reqs[r].pc)
          => reqs[r].row \in events']_vars

\* C14: delivery-error isolation. In a fan-out pass of a notification every registered
\* subscription of its seller either gets the frame appended and stays registered, or
\* its write failed: it gets nothing (no retry) and is unregistered; a subscription with
\* a working transport always gets the frame; subscriptions of other sellers and the
\* Event Store are left as they were.
C14_PassOf(k) ==
  LET n == Head(inbox[k]) IN
  /\ events' = events /\ published' = published
  /\ \A c \in ClientIds :
        IF Registered(c) /\ cl[c].sellerId = n.seller_id
        THEN \/ /\ c \in SeqToSet(clients')
                /\ written'[c] = Append(written[c], FormatFrame(n))
             \/ /\ c \notin SeqToSet(clients')
                /\ written'[c] = written[c]
                /\ cl[c].transport # "open"
                /\ cl'[c].removedBy = "write"
        ELSE /\ written'[c] = written[c]
             /\ cl'[c] = cl[c]
             /\ Registered(c) <=> c \in SeqToSet(clients')

C14_DeliveryErrorIsolation ==
  [][\A k \in ConnIds :
       (inbox[k] # <<>> /\ inbox'[k] = Tail(inbox[k])) => C14_PassOf(k)]_vars

\* of two subscriptions of one seller registered before the first append, one was
\* unregistered by a failed write and has no frame of an event whose frame the other,
\* still registered, has got
C14_Witness ==
  \E c, d \in ClientIds :
     /\ cl[c].early /\ cl[d].early /\ cl[c].sellerId = cl[d].sellerId
     /\ cl[c].removedBy = "write" /\ Registered(d)
     /\ \E i \in 1..Len(written[d]) :
           /\ written[d][i].src # NoRow
           /\ \A j \in 1..Len(written[c]) : written[c][j].src # written[d][i].src

\* C15: no leaked timer. A subscription's interval is running exactly when the
\* subscription is in the registry; the step that takes it out of the registry stops
\* the interval, and the interval callback only ever acts for a registered subscription.
C15_TimerIffRegistered ==
  \A c \in ClientIds : cl[c].heartbeat <=> Registered(c)

C15_StoppedWhenRemoved ==
  \A c \in ClientIds :
     /\ (Registered(c) /\ c \notin SeqToSet(clients')) => ~cl'[c].heartbeat
     /\ (cl'[c].nextBeat # cl[c].nextBeat /\ cl[c].transport # "none") => Registered(c)

C15_NoLeakedTimer ==
  []C15_TimerIffRegistered /\ [][C15_StoppedWhenRemoved]_vars

\* one subscription was unregistered by the timeout and its interval is stopped, while
\* another is registered with its interval running
C15_Witness ==
  \E c, d \in ClientIds :
     /\ cl[c].removedBy = "timeout" /\ ~cl[c].heartbeat /\ ~Registered(c)
     /\ Registered(d) /\ cl[d].heartbeat

\* C16 as stated: single listener. At most one connection is at once listening on the
\* channel and wired to the fan-out handler.
C16_SingleListener ==
  Cardinality({k \in ConnIds : Healthy(k) /\ lconn[k].listening /\ lconn[k].handlers > 0}) <= 1

\* C17: no replay or backfill. A step adds to a subscription's frames either the
\* acknowledgement, in the step that registers it, or a ping of its own interval, or
\* frames of the notification a connection hands to the handler in that step while the
\* subscription is registered; frames already written stay as they are. So an event
\* whose notification was handled, suppressed or lost before the subscription registered
\* is never written to it.
C17_StepWrites(c) ==
  \/ written'[c] = written[c]
  \/ /\ c = nextClientId /\ nextClientId' = c + 1
     /\ written'[c] = Append(written[c], ConnectedFrame(cl'[c].sellerId))
  \/ /\ Registered(c)
     /\ written'[c] = Append(written[c], [event |-> "ping", data |-> now, src |-> NoRow])
  \/ /\ Registered(c)
     /\ Len(written'[c]) > Len(written[c])
     /\ SubSeq(written'[c], 1, Len(written[c])) = written[c]
     /\ \E k \in ConnIds :
           /\ inbox[k] # <<>> /\ inbox'[k] = Tail(inbox[k])
           /\ \A i \in (Len(written[c]) + 1)..Len(written'[c]) :
                 /\ written'[c][i].src = Head(inbox[k])
                 /\ written'[c][i].src.seller_id = cl[c].sellerId

C18_Committed(row) ==
  /\ row.id \in published
  /\ row \notin InFlightRows
  /\ row \in events \/ ~products[row.product_id].exists

C18_NotificationImpliesCommitted ==
  /\ \A c \in ClientIds : \A i \in 1..Len(written[c]) :
        written[c][i].src # NoRow => C18_Committed(written[c][i].src)
  /\ \A k \in ConnIds : \A i \in 1..Len(inbox[k]) : C18_Committed(inbox[k][i])

\* the first INSERT was rolled back and left no row and no frame; the second committed
\* and a subscription holds its frame
C18_Witness ==
  /\ \A e \in events \cup InFlightRows : e.id # 1
  /\ nextEventId > 2
  /\ \E c \in ClientIds :
        /\ \A i \in 1..Len(written[c]) : written[c][i].src.id # 1
        /\ \E i \in 1..Len(written[c]) :
              /\ written[c][i].src.id = 2
              /\ written[c][i].src \in events
              /\ products[written[c][i].src.product_id].exists

\* C19: event immutability. A stored row leaves the Event Store only in the step that
\* deletes the product it references, and a row that enters it has an identifier no
\* stored row has: no row is ever rewritten.
C19_StepKeepsRows ==
  /\ \A e \in events :
        e \in events' \/ (products[e.product_id].exists /\ ~products'[e.product_id].exists)
  /\ \A e2 \in events' \ events : \A e \in events : e.id # e2.id

C19_EventImmutability == [][C19_StepKeepsRows]_vars

\* a DELETE by a seller who does not own the product was answered 404 and the
\* product's events are still stored
C19_Witness ==
  /\ lastResp.op = "delete" /\ lastResp.status = 404
  /\ products[lastResp.pid].exists
  /\ \E e \in events : e.product_id = lastResp.pid
  /\ reqs[1].pc = "idle"

\* the frames of a client of the second worker that carry a notification
PeerEventFrames(c) == SelectSeq(peer.written[c], LAMBDA f : f.src # NoRow)

\* C20 as stated: with two workers listening, a published notification is written to a
\* live matching subscription once, by the worker that holds it: an event the second
\* worker has written to its subscription has at most one frame on every subscription,
\* of either worker, that was registered before the event was appended.
C20_OncePerSubscription ==
  \A e \in events :
     (\E d \in ClientIds : \E j \in 1..Len(PeerEventFrames(d)) :
          peer.cl[d].early /\ PeerEventFrames(d)[j].src.id = e.id)
     => /\ \A c \in ClientIds :
             cl[c].early =>
             Cardinality({i \in 1..Len(EventFrames(c)) : EventFrames(c)[i].src.id = e.id}) <= 1
        /\ \A d \in ClientIds :
             peer.cl[d].early =>
             Cardinality({j \in 1..Len(PeerEventFrames(d)) :
                            PeerEventFrames(d)[j].src.id = e.id}) <= 1

\* C21: ownership and failed mutations. A product row changes only in a step of an update
\* or delete issued by the seller who owns it, and a step that answers 404 leaves the
\* products, the stored events, the published set, the event counter and the
\* notifications in flight as they were.
C21_OwnerOnly ==
  \A p \in ProductIds :
     (products[p].exists /\ products'[p] # products[p])
     => \E r \in ReqSlots : /\ reqs'[r].op \in {"update", "delete"}
                            /\ reqs'[r].pid = p
                            /\ reqs'[r].seller = products[p].seller_id

C21_NotFoundChangesNothing ==
  (lastResp' # lastResp /\ lastResp'.status = 404)
  => /\ lastResp'.op \in {"update", "delete"}
     /\ products' = products /\ events' = events /\ published' = published
     /\ nextEventId' = nextEventId /\ inbox' = inbox /\ reqs' = reqs

C21_FailedMutation == [][C21_OwnerOnly /\ C21_NotFoundChangesNothing]_vars

\* an update by a seller who does not own the product was answered 404; the product
\* and its events are stored
C21_Witness ==
  /\ lastResp.op = "update" /\ lastResp.status = 404
  /\ products[lastResp.pid].exists
  /\ \E e \in events : e.product_id = lastResp.pid
  /\ reqs[1].pc = "idle"

\* the limit of a request, clamped to 1..100 (10 when the parameter is not a number)
C22_Clamped(limit) == IF limit = <<>> THEN 10 ELSE Min(100, Max(1, limit[1]))

\* C22 as stated: a listing for seller s holds only products of s, at most l' items with
\* l' the limit clamped to 1..100, total = the number of s's products,
\* totalPages = ceil(total / l'), hasNext = (page < totalPages), hasPrev = (page > 1),
\* and with no products the data is empty and total is 0.
C22_SellerScopedPagination ==
  listing # NoListing =>
    LET lim == C22_Clamped(listing.limit)
        owned == {p \in ProductIds : products[p].exists /\ products[p].seller_id = listing.seller} IN
    /\ \A i \in 1..Len(listing.data) : listing.data[i] \in owned
    /\ Len(listing.data) <= lim
    /\ listing.total = Cardinality(owned)
    /\ listing.totalPages = Ceil(listing.total, lim)
    /\ listing.hasNext = (listing.pageNum < listing.totalPages)
    /\ listing.hasPrev = (listing.pageNum > 1)
    /\ (owned = {} => listing.data = <<>> /\ listing.total = 0)

\* C23: stream open protocol. A stream open registers one new subscription, at the end of
\* the registry, with its timer running, or, when the acknowledgement cannot be written,
\* registers nothing and leaves no timer.
C23_OpenRegistersOne ==
  nextClientId' # nextClientId =>
    LET id == nextClientId IN
    /\ nextClientId' = id + 1
    /\ id \notin SeqToSet(clients)
    /\ \A c \in ClientIds \ {id} : cl'[c] = cl[c] /\ written'[c] = written[c]
    /\ \/ /\ clients' = Append(clients, id)
          /\ cl'[id].heartbeat /\ cl'[id].sellerId \in Sellers
          /\ written'[id] = <<ConnectedFrame(cl'[id].sellerId)>>
       \/ /\ clients' = clients
          /\ ~cl'[id].heartbeat
          /\ written'[id] = <<>>

\* the acknowledgement is the first frame of every stream that has frames, names the
\* seller the subscription is bound to, and is written once
C23_AckFirst ==
  \A c \in ClientIds :
     /\ written[c] # <<>> => written[c][1] = ConnectedFrame(cl[c].sellerId)
     /\ \A i \in 2..Len(written[c]) : written[c][i].event # "message"
     /\ Registered(c) => written[c] # <<>>

\* the request's close or error event unregisters the subscription and stops its timer
C23_CloseUnregisters ==
  \A c \in ClientIds :
     (cl'[c].transport # cl[c].transport /\ cl'[c].transport \in {"closed", "errored"})
     => c \notin SeqToSet(clients') /\ ~cl'[c].heartbeat

C23_StreamOpenProtocol ==
  []C23_AckFirst /\ [][C23_OpenRegistersOne /\ C23_CloseUnregisters]_vars

\* one stream whose acknowledgement could not be written, and one that got its
\* acknowledgement, then an event frame, and was unregistered by the request's close
C23_Witness ==
  \E c, d \in ClientIds :
     /\ cl[c].removedBy = "ack" /\ written[c] = <<>>
     /\ cl[d].removedBy = "close" /\ Len(written[d]) >= 2
     /\ written[d][2].src # NoRow

\* C24: activity refresh. In every step, a subscription that existed before the step has
\* its lastActivity changed only together with a frame written to it, every frame
\* written to it sets lastActivity to the current time, and lastActivity never
\* decreases; a subscription created by the step and registered has lastActivity at the
\* current time, with its acknowledgement written.
C24_StepRefresh(c) ==
  LET wrote == Len(written'[c]) = Len(written[c]) + 1 IN
  /\ cl'[c].lastActivity >= cl[c].lastActivity
  /\ Len(written'[c]) >= Len(written[c])
  /\ wrote => cl'[c].lastActivity = now'
  /\ (cl[c].sellerId # "none" /\ cl'[c].lastActivity # cl[c].lastActivity) => wrote

C24_ActivityRefresh == [][\A c \in ClientIds : C24_StepRefresh(c)]_vars

\* a subscription got its acknowledgement at 0, a ping at 15 and an event frame at 30,
\* its transport broke, and the ping write at 45 failed: lastActivity is still 30
C24_Witness ==
  \E c \in ClientIds :
     /\ Len(written[c]) = 3
     /\ written[c][2].event = "ping" /\ written[c][3].src # NoRow
     /\ cl[c].removedBy = "pulse"
     /\ cl[c].lastActivity = 2 * HEARTBEAT_INTERVAL
     /\ now = 3 * HEARTBEAT_INTERVAL

\* C25 as stated: of two stored events with the same type and product whose INSERTs ran
\* less than 5 seconds apart, concurrently or not, at most one is published.
C25_AtMostOnePublished ==
  \A e1, e2 \in events :
     (/\ e1.id < e2.id
      /\ e1.type = e2.type /\ e1.product_id = e2.product_id
      /\ e2.created_at - e1.created_at < DEDUP_WINDOW
      /\ e1.created_at - e2.created_at < DEDUP_WINDOW)
     => ~(e1.id \in published /\ e2.id \in published)

\* two stored rows of one type and product
C26_SameKey(d, e) == d.id # e.id /\ d.type = e.type /\ d.product_id = e.product_id

C26_PublishedIffNoStoredRecent ==
  \A e \in events :
     e.id \in published <=>
       ~ \E d \in events : /\ C26_SameKey(d, e) /\ d.id < e.id
                           /\ e.created_at - d.created_at < DEDUP_WINDOW

C26_ChainOnlyFirst ==
  \A d, e \in events :
     (C26_SameKey(d, e) /\ e.id = d.id + 1 /\ e.created_at - d.created_at < DEDUP_WINDOW)
     => e.id \notin published

C26_AtLeastFiveApart ==
  \A d, e \in events :
     (C26_SameKey(d, e) /\ d.id < e.id /\ d.id \in published /\ e.id \in published)
     => e.created_at - d.created_at >= DEDUP_WINDOW

C27_WithinOneInterval ==
  \A c \in ClientIds :
     ~cl[c].late =>
        /\ cl[c].removedBy # "timeout"
        /\ cl[c].heartbeat => now - cl[c].lastActivity <= HEARTBEAT_INTERVAL

C27_LeavesOnlyByFailure ==
  \A c \in ClientIds :
     (c \in SeqToSet(clients) /\ c \notin SeqToSet(clients') /\ ~cl'[c].late)
     => cl'[c].removedBy \in {"pulse", "write", "close", "error"}

C27_TimeoutNeverOnSchedule == []C27_WithinOneInterval /\ [][C27_LeavesOnlyByFailure]_vars

\* a subscription on a severed transport is still registered after 75 seconds and five
\* punctual pings, while another one was removed by a ping write that failed
C27_Witness ==
  \E c, d \in ClientIds :
     /\ c \in SeqToSet(clients) /\ ~cl[c].late /\ cl[c].transport = "severed"
     /\ now = 5 * HEARTBEAT_INTERVAL /\ cl[c].lastActivity = now
     /\ Len(written[c]) = 6
     /\ cl[d].removedBy = "pulse" /\ ~cl[d].late

\* C28 as stated: a fan-out pass unregisters a subscription only if the write to its
\* transport failed, which only a transport that is no longer open does, and a pass over
\* a notification that cannot be parsed or formatted unregisters nobody.
C28_PassRemoves(k) ==
  LET n == Head(inbox[k]) IN
  \A c \in ClientIds :
     (c \in SeqToSet(clients) /\ c \notin SeqToSet(clients'))
     => /\ cl[c].transport # "open"
        /\ n \notin MalformedNotifications

C28_RemovesOnlyFailedTransports ==
  [][\A k \in ConnIds :
       (inbox[k] # <<>> /\ inbox'[k] = Tail(inbox[k]) /\ lconn' = lconn) => C28_PassRemoves(k)]_vars

\* C29: primary before secondary. The INSERT of a LowStockWarning runs only in a create
\* or update whose mutation is committed with a quantity at or below the threshold, after
\* the primary event's INSERT, which, if it stored its row, stored it with the identifier
\* just below the warning's; and on every subscription the frame of the primary event
\* stands before the frame of the warning of the same mutation.
C29_WarningStep ==
  \A r \in ReqSlots :
     (reqs[r].pc = "low" /\ reqs'[r].pc = "lowCommit")
     => /\ reqs[r].op \in {"create", "update"} /\ reqs[r].mutated
        /\ products[reqs[r].pid].exists
        /\ products[reqs[r].pid].quantity = reqs[r].qty
        /\ reqs[r].qty <= LOW_STOCK_THRESHOLD
        /\ reqs'[r].row.type = "LowStockWarning"
        /\ reqs[r].primary =>
              \E e \in events : /\ e.type = PrimaryType(reqs[r].op)
                                /\ e.product_id = reqs[r].pid
                                /\ e.payload.quantity = reqs[r].qty
                                /\ e.id + 1 = reqs'[r].row.id

C29_PrimaryFrameFirst ==
  \A c \in ClientIds : \A i, j \in 1..Len(written[c]) :
     (/\ written[c][i].src.type \in {"ProductCreated", "ProductUpdated"}
      /\ written[c][j].src.type = "LowStockWarning"
      /\ written[c][j].src.product_id = written[c][i].src.product_id
      /\ written[c][j].src.id = written[c][i].src.id + 1)
     => i < j

C30_Unread == {i \in 1..Len(store.notifications) : ~store.notifications[i].read}

C30_UnreadCountInvariant ==
  /\ store.unreadCount = Cardinality(C30_Unread)
  /\ store.unreadCount >= 0
  /\ \A id \in StoreIds :
        LET i == FindIndex(store.notifications, id) IN
        /\ (i = 0 \/ store.notifications[i].read) => MarkAsRead(store, id) = store
        /\ i = 0 => RemoveNotification(store, id) = store

\* three notifications are stored, the newest two with the same id, one of them read and
\* one unread, and the count is 1
C30_Witness ==
  /\ Len(store.notifications) = 3
  /\ store.notifications[1].id = store.notifications[2].id
  /\ store.notifications[1].read /\ ~store.notifications[2].read
  /\ store.notifications[3].read
  /\ store.notifications[3].id[1] = "low-stock"
  /\ store.unreadCount = 1

====
